---- MODULE Spec2Model ----
(***************************************************************************)
(* Model of homework.py: a polling bot that asks a homework-review API for *)
(* status changes since a cursor and relays them to a chat.                *)
(*                                                                         *)
(* Python values are modelled with their run-time type, because the code   *)
(* tests it (isinstance):  [type |-> "dict", value |-> f] with f a         *)
(* function whose DOMAIN is the set of keys, [type |-> "list", value |->   *)
(* s] with s a sequence, [type |-> "int", ...], [type |-> "str", ...].     *)
(* An optional value (a local that may be unbound, a result that may be    *)
(* absent) is None == <<>> or Some(v) == <<v>>.                            *)
(* The source's message texts are Russian; the strings here are their      *)
(* transliterations, one distinct string per distinct source string.       *)
(***************************************************************************)
EXTENDS Integers, Sequences, FiniteSets, TLC

VARIABLES
    pc,                 \* position of main(): see PcValues
    PRACTICUM_TOKEN,    \* homework.py:23
    TELEGRAM_TOKEN,     \* homework.py:24
    TELEGRAM_CHAT_ID,   \* homework.py:25
    current_timestamp,  \* main's local, the cursor (homework.py:107,119)
    error_message,      \* main's local: None while unbound (homework.py:120,130)
    response,           \* main's local (homework.py:111)
    homeworks,          \* main's local (homework.py:112)
    status,             \* main's local (homework.py:114)
    error,              \* the exception being handled (homework.py:122,125)
    pending,            \* an exception raised inside a handler, propagating
    exit_status,        \* the process's exit status once it has ended
    cur,                \* history: what the cycle in progress has done
    prev,               \* history: what the previous cycle did
    clean,              \* history: when the cycle began, the last cycle that was
                        \* not an easy-error cycle was a successful one
    last_notified,      \* history: text of the last failure notification
                        \* delivered in an earlier cycle
    past                \* history of the earlier cycles: see NoPast

vars == <<pc, PRACTICUM_TOKEN, TELEGRAM_TOKEN, TELEGRAM_CHAT_ID,
          current_timestamp, error_message, response, homeworks, status,
          error, pending, exit_status, cur, prev, clean, last_notified, past>>

\* ------------------------------------------------------------------ bounds

\* Timestamps (time.time() and the API's current_date) range over 1..MaxDate.
MaxDate == 2

\* ------------------------------------------------------- Python values

None == <<>>
Some(v) == <<v>>
IsNone(o) == Len(o) = 0
Get(o) == o[1]

PyDict(f) == [type |-> "dict", value |-> f]
PyList(s) == [type |-> "list", value |-> s]
PyInt(n) == [type |-> "int", value |-> n]
PyStr(s) == [type |-> "str", value |-> s]

\* a function result: a returned value or a raised exception
Return(v) == [raised |-> FALSE, value |-> v]
Raise(cls, msg) == [raised |-> TRUE, exc |-> [cls |-> cls, msg |-> msg]]

\* ------------------------------------------------------------- exceptions

\* The classes of the module `exceptions` (imported at homework.py:10, its
\* file is not part of the sources): EasyError is the class of the expected
\* errors that are only logged, EmptyKeyError (the missing-field error) is a
\* subclass of it.  Each class with the classes it is an instance of.
ExceptionsModule(cls) ==
    CASE cls = "EmptyKeyError" -> {"EmptyKeyError", "EasyError", "Exception"}
      [] cls = "EasyError" -> {"EasyError", "Exception"}
      [] OTHER -> {}

\* The classes of the exceptions the program meets, each with the classes it
\* is an instance of (Python's built-in hierarchy, and the libraries').
Superclasses(cls) ==
    CASE ExceptionsModule(cls) /= {} -> ExceptionsModule(cls)
      [] cls = "KeyError" -> {"KeyError", "LookupError", "Exception"}
      [] cls = "TypeError" -> {"TypeError", "Exception"}
      [] cls = "JSONDecodeError" -> {"JSONDecodeError", "ValueError", "Exception"}
      [] cls = "TelegramError" -> {"TelegramError", "Exception"}
      [] cls = "UnboundLocalError" -> {"UnboundLocalError", "NameError", "Exception"}
      [] OTHER -> {"Exception"}

\* `except <cls> as error` catches exc
Catches(cls, exc) == cls \in Superclasses(exc.cls)

\* str(error), as the f-string of homework.py:126 formats it: KeyError's
\* __str__ is the repr of its argument, the other classes' is the argument.
StrOf(exc) ==
    IF "KeyError" \in Superclasses(exc.cls)
    THEN "'" \o exc.msg \o "'"
    ELSE exc.msg

\* ------------------------------------------------------ module constants

RETRY_TIME == 600

HOMEWORK_VERDICTS ==
    [approved |-> "Rabota proverena: revyueru vsyo ponravilos. Ura!",
     reviewing |-> "Rabota vzyata na proverku revyuerom.",
     rejected |-> "Rabota proverena: u revyuera est zamechaniya."]

\* os.getenv gives None for a variable that is not set (homework.py:23-25)
NoEnv == "<None>"
EnvValues == {NoEnv, "", "value"}
Truthy(v) == v /= NoEnv /\ v /= ""

\* ------------------------------------------------------------- inputs

Dates == 1..MaxDate
Names == {"hw1", "hw2"}
Statuses == {"approved", "reviewing", "rejected", "resubmitted"}
StatusCodes == {200, 500, 503}

\* homework records: mappings with any subset of the two keys
HomeworkRecords ==
    {PyDict(<<>>),
     PyDict([homework_name |-> PyStr("hw1")]),
     PyDict([status |-> PyStr("approved")])}
    \cup {PyDict([homework_name |-> PyStr(n), status |-> PyStr(s)]) :
            n \in Names, s \in Statuses}

\* records that may follow the first one in a longer list
LaterRecords ==
    {PyDict(<<>>),
     PyDict([homework_name |-> PyStr("hw2"), status |-> PyStr("resubmitted")]),
     PyDict([homework_name |-> PyStr("hw2"), status |-> PyStr("rejected")])}

HomeworkLists ==
    {<<>>}
    \cup {<<h>> : h \in HomeworkRecords}
    \cup {<<h, t>> : h \in HomeworkRecords, t \in LaterRecords}

\* values the API may put under `homeworks`
HomeworksValues == {PyList(l) : l \in HomeworkLists} \cup {PyDict(<<>>), PyStr("none")}

\* JSON bodies of a 200 answer
Responses ==
    {PyList(<<>>), PyDict(<<>>)}
    \cup {PyDict([homeworks |-> h]) : h \in HomeworksValues}
    \cup {PyDict([current_date |-> PyInt(d)]) : d \in Dates}
    \cup {PyDict([homeworks |-> h, current_date |-> PyInt(d)]) :
            h \in HomeworksValues, d \in Dates}

\* what the network does with one GET: no connection, or an HTTP answer
\* whose body is JSON (Some) or not (None)
NetOutcomes ==
    {[kind |-> "ConnectionError", status_code |-> 0, json |-> None]}
    \cup {[kind |-> "http", status_code |-> c, json |-> None] : c \in StatusCodes}
    \cup {[kind |-> "http", status_code |-> 200, json |-> Some(r)] : r \in Responses}

\* what the chat does with one send: delivers it or raises TelegramError
ChatOutcomes == {"ok", "TelegramError"}

\* --------------------------------------------------------- the functions

RequestParamsEpoch(timestamp) == [from_date |-> 0]

\* get_api_answer's request: the cursor goes out as from_date
RequestParams(timestamp) == [from_date |-> timestamp]

get_api_answer(current_ts, net) ==
    IF net.kind = "ConnectionError"
    THEN Raise("Exception", "Oshibka pri zaprose k endpointu API-servisa")
    ELSE IF net.status_code /= 200
    THEN Raise("Exception",
               "Neozhidannyi otvet servera: " \o ToString(net.status_code))
    ELSE IF IsNone(net.json)
    THEN Raise("JSONDecodeError", "Expecting value: line 1 column 1 (char 0)")
    ELSE Return(Get(net.json))

check_response_no_dict_test(resp) ==
    IF "homeworks" \notin DOMAIN resp.value
    THEN Raise("EmptyKeyError", "Otsutstvuet pole homeworks v otvete API")
    ELSE IF "current_date" \notin DOMAIN resp.value
    THEN Raise("EmptyKeyError", "Otsutstvuet pole current_date v otvete API")
    ELSE IF resp.value["homeworks"].type = "list"
    THEN Return(resp.value["homeworks"].value)
    ELSE Raise("TypeError", "Domashki prishli ne v vide spiska")

check_response_no_date(resp) ==
    IF resp.type /= "dict"
    THEN Raise("TypeError", "Tip otveta API ne yavlyaetsya slovarem")
    ELSE IF "homeworks" \notin DOMAIN resp.value
    THEN Raise("EmptyKeyError", "Otsutstvuet pole homeworks v otvete API")
    ELSE IF resp.value["homeworks"].type = "list"
    THEN Return(resp.value["homeworks"].value)
    ELSE Raise("TypeError", "Domashki prishli ne v vide spiska")

check_response(resp) ==
    IF resp.type /= "dict"
    THEN Raise("TypeError", "Tip otveta API ne yavlyaetsya slovarem")
    ELSE IF "homeworks" \notin DOMAIN resp.value
    THEN Raise("EmptyKeyError", "Otsutstvuet pole homeworks v otvete API")
    ELSE IF "current_date" \notin DOMAIN resp.value
    THEN Raise("EmptyKeyError", "Otsutstvuet pole current_date v otvete API")
    ELSE IF resp.value["homeworks"].type = "list"
    THEN Return(resp.value["homeworks"].value)
    ELSE Raise("TypeError", "Domashki prishli ne v vide spiska")

parse_status_get(homework) ==
    IF "homework_name" \notin DOMAIN homework.value
    THEN Raise("KeyError", "Otsutstvuet pole homework_name v otvete API")
    ELSE IF "status" \notin DOMAIN homework.value
    THEN Raise("KeyError", "Otsutstvuet pole status v otvete API")
    ELSE LET homework_name == homework.value["homework_name"].value
             homework_status == homework.value["status"].value
             verdict == IF homework_status \in DOMAIN HOMEWORK_VERDICTS
                        THEN HOMEWORK_VERDICTS[homework_status]
                        ELSE "None"
         IN Return("Izmenilsya status proverki raboty \"" \o homework_name
                   \o "\". " \o verdict)

parse_status(homework) ==
    IF "homework_name" \notin DOMAIN homework.value
    THEN Raise("KeyError", "Otsutstvuet pole homework_name v otvete API")
    ELSE IF "status" \notin DOMAIN homework.value
    THEN Raise("KeyError", "Otsutstvuet pole status v otvete API")
    ELSE LET homework_name == homework.value["homework_name"].value
             homework_status == homework.value["status"].value
         IN IF homework_status \notin DOMAIN HOMEWORK_VERDICTS
            THEN Raise("Exception", "Neizvestnyi status")
            ELSE Return("Izmenilsya status proverki raboty \"" \o homework_name
                        \o "\". " \o HOMEWORK_VERDICTS[homework_status])

check_tokens_any ==
    Truthy(TELEGRAM_TOKEN) \/ Truthy(TELEGRAM_CHAT_ID) \/ Truthy(PRACTICUM_TOKEN)

\* all([...]) of homework.py:97
check_tokens == Truthy(TELEGRAM_TOKEN) /\ Truthy(TELEGRAM_CHAT_ID) /\ Truthy(PRACTICUM_TOKEN)

\* the text of a failure notification (homework.py:126)
FailureMessage(exc) == "Sboi v rabote programmy: " \o StrOf(exc)

\* bot.send_message(TELEGRAM_CHAT_ID, message): the bot client's call
bot_send_message(message, chat) ==
    IF chat = "TelegramError"
    THEN Raise("TelegramError", "Timed out")
    ELSE Return(None)

send_message_uncaught(message, chat) == bot_send_message(message, chat)

\* send_message: the call with TelegramError caught and logged
send_message(message, chat) ==
    LET r == bot_send_message(message, chat)
    IN IF r.raised /\ Catches("TelegramError", r.exc)
       THEN Return(None)
       ELSE r

ShouldNotifyAlways(message, remembered) == TRUE
ShouldNotifyInverted(message, remembered) == message = Get(remembered)

\* `if message != error_message` (homework.py:128); reading error_message
\* while it is unbound raises UnboundLocalError
ShouldNotify(message, remembered) == message /= Get(remembered)

NotifyGuard(message, remembered) ==
    IF IsNone(remembered)
    THEN Raise("UnboundLocalError",
               "local variable 'error_message' referenced before assignment")
    ELSE Return(ShouldNotify(message, remembered))

SelectedHomeworkLast(hws) == hws[Len(hws)]

\* homeworks[0] (homework.py:114); Python's index 0 is the sequence's first
SelectedHomework(hws) == hws[1]

AfterCheckManyOnly(hws) == IF Len(hws) > 1 THEN "parse" ELSE "advance"

\* `if homeworks:` (homework.py:113): a non-empty list is parsed and sent,
\* an empty one is only logged (116-117)
AfterCheck(hws) == IF Len(hws) > 0 THEN "parse" ELSE "advance"

NextTimestampNow(resp, now) == now

\* response.get('current_date', int(time.time())) (homework.py:119)
NextTimestamp(resp, now) ==
    IF "current_date" \in DOMAIN resp.value
    THEN resp.value["current_date"].value
    ELSE now

FinallySkippedOnRaise(exc) == IF IsNone(exc) THEN "sleep" ELSE "crashed"

\* `finally` (homework.py:132): where control goes when the try statement's
\* body or one of its handlers is left, normally or by an exception
Finally(exc) == "sleep"

\* after the cycle's sleep: an exception that left a handler propagates out
\* of main() and ends the process, otherwise `while True` loops
AfterSleep(exc) == IF IsNone(exc) THEN "fetch" ELSE "crashed"

\* ------------------------------------------------------------ the history

NewCycle ==
    [fetches |-> 0,         \* GETs sent in the cycle
     from_date |-> None,    \* the from_date its GET carried
     current_date |-> None, \* the current_date of the answer, when it has one
     outcome |-> "running", \* "success", "easy" or "generic" once decided
     text |-> "",           \* the failure text of a generic failure
     sends |-> <<>>,        \* chat sends attempted: [kind, text, delivered]
     sleeps |-> <<>>]       \* the durations of its sleeps

SendRecord(kind, text, chat) ==
    [kind |-> kind, text |-> text, delivered |-> chat = "ok"]

\* the sends of a kind that a cycle attempted, and those that were delivered
Attempted(c, kind) == {i \in 1..Len(c.sends) : c.sends[i].kind = kind}
Delivered(c, kind) == {i \in Attempted(c, kind) : c.sends[i].delivered}

\* what the cycles before the one in progress have been
NoPast ==
    [succeeded |-> FALSE,    \* one of them was a successful cycle
     last_generic |-> None]  \* the latest generic-failure cycle, its text and
                             \* the number of its failure sends, when no
                             \* successful cycle has followed it

PastAfter(p, c) ==
    CASE c.outcome = "success" ->
           [succeeded |-> TRUE, last_generic |-> None]
      [] c.outcome = "generic" ->
           [p EXCEPT !.last_generic =
               Some([text |-> c.text,
                     sends |-> Cardinality(Attempted(c, "failure"))])]
      [] OTHER -> p

CurrentDateOf(r) ==
    IF ~r.raised /\ r.value.type = "dict" /\ "current_date" \in DOMAIN r.value.value
    THEN Some(r.value.value["current_date"].value)
    ELSE None

\* ------------------------------------------------------------------ main

PcValues == {"start", "fetch", "check", "parse", "send", "advance",
             "except", "sleep", "exited", "crashed"}

Init ==
    /\ pc = "start"
    /\ PRACTICUM_TOKEN \in EnvValues
    /\ TELEGRAM_TOKEN \in EnvValues
    /\ TELEGRAM_CHAT_ID \in EnvValues
    /\ current_timestamp = None
    /\ error_message = None
    /\ response = None
    /\ homeworks = None
    /\ status = None
    /\ error = None
    /\ pending = None
    /\ exit_status = None
    /\ cur = NewCycle
    /\ prev = NewCycle
    /\ clean = FALSE
    /\ last_notified = ""
    /\ past = NoPast

env == <<PRACTICUM_TOKEN, TELEGRAM_TOKEN, TELEGRAM_CHAT_ID>>
locals == <<response, homeworks, status, error>>

\* homework.py:102-104: sys.exit with a message ends the process with status 1
ExitMissingTokens ==
    /\ pc = "start"
    /\ ~check_tokens
    /\ pc' = "exited"
    /\ exit_status' = Some(1)
    /\ UNCHANGED <<env, locals, current_timestamp, error_message, pending,
                   cur, prev, clean, last_notified, past>>

\* homework.py:102,106-107
EnterLoop ==
    /\ pc = "start"
    /\ check_tokens
    /\ \E now \in Dates : current_timestamp' = Some(now)
    /\ pc' = "fetch"
    /\ UNCHANGED <<env, locals, error_message, pending, exit_status,
                   cur, prev, clean, last_notified, past>>

\* homework.py:111
GetApiAnswer ==
    /\ pc = "fetch"
    /\ \E net \in NetOutcomes :
         LET r == get_api_answer(Get(current_timestamp), net)
         IN /\ cur' = [cur EXCEPT
                         !.fetches = @ + 1,
                         !.from_date =
                             Some(RequestParams(Get(current_timestamp)).from_date),
                         !.current_date = CurrentDateOf(r)]
            /\ IF r.raised
               THEN /\ error' = Some(r.exc)
                    /\ pc' = "except"
                    /\ UNCHANGED response
               ELSE /\ response' = Some(r.value)
                    /\ pc' = "check"
                    /\ UNCHANGED error
    /\ UNCHANGED <<env, homeworks, status, current_timestamp, error_message,
                   pending, exit_status, prev, clean, last_notified, past>>

\* homework.py:112-113 and, for an empty list, 116-117
CheckResponse ==
    /\ pc = "check"
    /\ LET r == check_response(Get(response))
       IN IF r.raised
          THEN /\ error' = Some(r.exc)
               /\ pc' = "except"
               /\ UNCHANGED homeworks
          ELSE /\ homeworks' = Some(r.value)
               /\ pc' = AfterCheck(r.value)
               /\ UNCHANGED error
    /\ UNCHANGED <<env, response, status, current_timestamp, error_message,
                   pending, exit_status, cur, prev, clean, last_notified, past>>

\* homework.py:114
ParseStatus ==
    /\ pc = "parse"
    /\ LET r == parse_status(SelectedHomework(Get(homeworks)))
       IN IF r.raised
          THEN /\ error' = Some(r.exc)
               /\ pc' = "except"
               /\ UNCHANGED status
          ELSE /\ status' = Some(r.value)
               /\ pc' = "send"
               /\ UNCHANGED error
    /\ UNCHANGED <<env, response, homeworks, current_timestamp, error_message,
                   pending, exit_status, cur, prev, clean, last_notified, past>>

\* homework.py:115
SendStatus ==
    /\ pc = "send"
    /\ \E chat \in ChatOutcomes :
         LET r == send_message(Get(status), chat)
         IN /\ cur' = [cur EXCEPT
                         !.sends = Append(@, SendRecord("status", Get(status), chat))]
            /\ IF r.raised
               THEN /\ error' = Some(r.exc)
                    /\ pc' = "except"
               ELSE /\ pc' = "advance"
                    /\ UNCHANGED error
    /\ UNCHANGED <<env, response, homeworks, status, current_timestamp,
                   error_message, pending, exit_status, prev, clean, last_notified, past>>

\* homework.py:119-120, the end of the try statement's body
Advance ==
    /\ pc = "advance"
    /\ \E now \in Dates :
         current_timestamp' = Some(NextTimestamp(Get(response), now))
    /\ error_message' = Some("")
    /\ cur' = [cur EXCEPT !.outcome = "success"]
    /\ pc' = Finally(None)
    /\ UNCHANGED <<env, locals, pending, exit_status, prev, clean, last_notified, past>>

\* homework.py:122-123
ExceptEasyError ==
    /\ pc = "except"
    /\ Catches("EasyError", Get(error))
    /\ cur' = [cur EXCEPT !.outcome = "easy"]
    /\ pc' = Finally(None)
    /\ UNCHANGED <<env, locals, current_timestamp, error_message, pending,
                   exit_status, prev, clean, last_notified, past>>

\* homework.py:125-130
ExceptException ==
    /\ pc = "except"
    /\ ~Catches("EasyError", Get(error))
    /\ Catches("Exception", Get(error))
    /\ LET message == FailureMessage(Get(error))
           g == NotifyGuard(message, error_message)
       IN IF g.raised
          THEN /\ pending' = Some(g.exc)
               /\ cur' = [cur EXCEPT !.outcome = "generic", !.text = message]
               /\ UNCHANGED error_message
          ELSE IF g.value
          THEN \E chat \in ChatOutcomes :
                 LET r == bot_send_message(message, chat)
                 IN /\ cur' = [cur EXCEPT
                                 !.outcome = "generic",
                                 !.text = message,
                                 !.sends = Append(@, SendRecord("failure", message, chat))]
                    /\ IF r.raised
                       THEN /\ pending' = Some(r.exc)
                            /\ UNCHANGED error_message
                       ELSE /\ error_message' = Some(message)
                            /\ UNCHANGED pending
          ELSE /\ cur' = [cur EXCEPT !.outcome = "generic", !.text = message]
               /\ UNCHANGED <<error_message, pending>>
    /\ pc' = Finally(pending')
    /\ UNCHANGED <<env, locals, current_timestamp, exit_status, prev, clean,
                   last_notified, past>>

\* homework.py:132-133, then back to `while True` (109) or, when a handler
\* raised, out of main() with a traceback and exit status 1.  The locals the
\* next cycle assigns before reading are reset at the loop's head.
Sleep ==
    /\ pc = "sleep"
    /\ pc' = AfterSleep(pending)
    /\ IF pc' = "fetch"
       THEN /\ prev' = [cur EXCEPT !.sleeps = Append(@, RETRY_TIME)]
            /\ cur' = NewCycle
            /\ response' = None
            /\ homeworks' = None
            /\ status' = None
            /\ error' = None
            /\ clean' = CASE cur.outcome = "success" -> TRUE
                           [] cur.outcome = "generic" -> FALSE
                           [] OTHER -> clean
            /\ last_notified' = IF Delivered(cur, "failure") /= {}
                                THEN cur.text
                                ELSE last_notified
            /\ past' = PastAfter(past, cur)
            /\ UNCHANGED exit_status
       ELSE /\ cur' = [cur EXCEPT !.sleeps = Append(@, RETRY_TIME)]
            /\ exit_status' = Some(1)
            /\ UNCHANGED <<prev, locals, clean, last_notified, past>>
    /\ UNCHANGED <<env, current_timestamp, error_message, pending>>

Next ==
    \/ ExitMissingTokens
    \/ EnterLoop
    \/ GetApiAnswer
    \/ CheckResponse
    \/ ParseStatus
    \/ SendStatus
    \/ Advance
    \/ ExceptEasyError
    \/ ExceptException
    \/ Sleep

Spec == Init /\ [][Next]_vars

\* the loop is never refused a step: every position of main() is left
FairSpec == Spec /\ WF_vars(Next)

TypeOK ==
    /\ pc \in PcValues
    /\ cur.fetches \in 0..1
    /\ Len(cur.sleeps) \in 0..1
    /\ cur.outcome \in {"running", "success", "easy", "generic"}


\* ---------------------------------------------------------------- claims

\* the cycle in progress has run its body and its handler, if any
CycleDecided == pc \in {"sleep", "crashed"} /\ cur.outcome /= "running"

AllDelivered(c) == \A i \in 1..Len(c.sends) : c.sends[i].delivered

\* C1: once the startup check has passed, no failure of the fetch, the
\* validation or parse_status ends the process while every chat send
\* succeeds: the process is never ended by an uncaught exception unless a
\* chat send of the last cycle failed.
C1_NoCycleFailureEndsProcess ==
    pc = "crashed" => ~AllDelivered(cur)

\* C2 as stated: of two consecutive generic-failure cycles with the same
\* text exactly one notification is sent over the two; with different
\* texts each of the two cycles sends one.
C2_ExactlyOnePerPair ==
    (CycleDecided /\ prev.outcome = "generic" /\ cur.outcome = "generic")
    => IF prev.text = cur.text
       THEN Cardinality(Attempted(prev, "failure"))
            + Cardinality(Attempted(cur, "failure")) = 1
       ELSE /\ Cardinality(Attempted(prev, "failure")) >= 1
            /\ Cardinality(Attempted(cur, "failure")) >= 1

\* C2 amended: in the second of two consecutive generic-failure cycles a
\* failure notification is sent exactly when its text differs from the first
\* cycle's text; with the same text the second cycle sends nothing, so the
\* two cycles send at most one notification between them.
C2_SecondSendsIffTextDiffers ==
    (CycleDecided /\ prev.outcome = "generic" /\ cur.outcome = "generic")
    => /\ Cardinality(Attempted(cur, "failure"))
            = (IF prev.text = cur.text THEN 0 ELSE 1)
       /\ \A i \in Attempted(cur, "failure") : cur.sends[i].text = cur.text
       /\ Cardinality(Attempted(prev, "failure")) <= 1
       /\ prev.text = cur.text
            => Cardinality(Attempted(prev, "failure"))
               + Cardinality(Attempted(cur, "failure")) <= 1

\* two identical failures in a row, the first notified, the second not
C2_Witness ==
    /\ pc = "sleep"
    /\ prev.outcome = "generic"
    /\ cur.outcome = "generic"
    /\ prev.text = cur.text
    /\ Cardinality(Delivered(prev, "failure")) = 1
    /\ cur.sends = <<>>

\* C3: a successful cycle leaves the remembered failure message empty, and
\* the first generic failure after a successful cycle (easy-error cycles may
\* lie between) sends its notification, whatever was notified before.
C3_SuccessResetsDeduplication ==
    /\ cur.outcome = "success" => error_message = Some("")
    /\ (clean /\ cur.outcome = "running") => error_message = Some("")
    /\ (clean /\ cur.outcome = "generic")
       => /\ Len(cur.sends) = 1
          /\ cur.sends[1].kind = "failure"
          /\ cur.sends[1].text = cur.text

\* after a success, a failure whose text was already notified before that
\* success is notified again
C3_Witness ==
    /\ pc = "sleep"
    /\ clean
    /\ cur.outcome = "generic"
    /\ cur.text = last_notified
    /\ Cardinality(Delivered(cur, "failure")) = 1

\* C4: every cycle sleeps exactly once, for RETRY_TIME, after its fetch and
\* before the next fetch or the end of the process, whatever its outcome.
C4_OneSleepPerCycle ==
    /\ cur.fetches <= 1
    /\ Len(cur.sleeps) <= cur.fetches
    /\ pc \in {"fetch", "check", "parse", "send", "advance", "except", "sleep"}
       => cur.sleeps = <<>>
    /\ pc = "fetch" => cur.fetches = 0
    /\ pc = "fetch" /\ prev /= NewCycle
       => prev.fetches = 1 /\ prev.sleeps = <<RETRY_TIME>>
    /\ pc = "crashed" => cur.fetches = 1 /\ cur.sleeps = <<RETRY_TIME>>

\* a cycle whose failure handler raised has slept all the same
C4_Witness ==
    /\ pc = "crashed"
    /\ Get(pending).cls = "TelegramError"
    /\ cur.fetches = 1
    /\ cur.sleeps = <<RETRY_TIME>>

\* C5: no failure of a chat send ends the process.
C5_SendFailureNeverEndsProcess ==
    pc = "crashed" => ~Catches("TelegramError", Get(pending))


\* the status send of a cycle failed with a messaging-transport error
StatusSendFailed(c) ==
    \E i \in Attempted(c, "status") : ~c.sends[i].delivered

\* C6: a cycle whose status send fails is still a successful cycle: that
\* send is its only chat send (no retry, no failure notification), no
\* handler runs, the cursor advances to the response's current_date and the
\* remembered failure message is cleared.
C6_StatusSendFailureIsDropped ==
    /\ StatusSendFailed(cur)
       => /\ Len(cur.sends) = 1
          /\ pc \in {"advance", "sleep"}
          /\ error = None
          /\ pending = None
          /\ pc = "sleep"
             => /\ cur.outcome = "success"
                /\ current_timestamp = cur.current_date
                /\ current_timestamp
                     = Some(Get(response).value["current_date"].value)
                /\ error_message = Some("")
    /\ StatusSendFailed(prev)
       => Len(prev.sends) = 1 /\ prev.outcome = "success"

\* a status send failed and the cycle ended as a success, the cursor moved
C6_Witness ==
    /\ pc = "sleep"
    /\ StatusSendFailed(cur)
    /\ cur.outcome = "success"
    /\ cur.from_date /= cur.current_date
    /\ current_timestamp = cur.current_date

\* the response of the cycle is a mapping without one of its two fields
ResponseLacksField ==
    /\ ~IsNone(response)
    /\ Get(response).type = "dict"
    /\ \/ "homeworks" \notin DOMAIN Get(response).value
       \/ "current_date" \notin DOMAIN Get(response).value

\* C7: a response that is a mapping lacking `homeworks` or `current_date`
\* makes check_response raise the missing-field error, the cycle is an
\* easy-error cycle, it sends nothing to the chat and the loop goes on.
C7_MissingFieldIsEasy ==
    (ResponseLacksField /\ pc /= "check")
    => /\ pc \in {"except", "sleep"}
       /\ ~IsNone(error)
       /\ Get(error).cls = "EmptyKeyError"
       /\ cur.sends = <<>>
       /\ pending = None
       /\ pc = "sleep" => cur.outcome = "easy" /\ AfterSleep(pending) = "fetch"

\* a response without current_date, handled, the cycle about to sleep
C7_Witness ==
    /\ pc = "sleep"
    /\ ResponseLacksField
    /\ "homeworks" \in DOMAIN Get(response).value
    /\ cur.outcome = "easy"
    /\ cur.sends = <<>>

\* the first homework record of a valid response lacks one of its two fields
FirstRecordLacksField ==
    /\ ~IsNone(homeworks)
    /\ Len(Get(homeworks)) > 0
    /\ \/ "homework_name" \notin DOMAIN Get(homeworks)[1].value
       \/ "status" \notin DOMAIN Get(homeworks)[1].value

\* C8: when the first homework record lacks `homework_name` or `status`
\* the cycle is an easy-error cycle: no chat send is made for it.
C8_MissingRecordFieldIsEasy ==
    (FirstRecordLacksField /\ CycleDecided)
    => /\ cur.outcome = "easy"
       /\ cur.sends = <<>>

\* C9: after a successful cycle the cursor is the current_date of the
\* cycle's response, and the next fetch carries that value as from_date.
C9_CursorFollowsCurrentDate ==
    /\ cur.outcome = "success"
       => /\ current_timestamp
               = Some(Get(response).value["current_date"].value)
          /\ current_timestamp = cur.current_date
    /\ prev.outcome = "success"
       => /\ ~IsNone(prev.current_date)
          /\ cur.fetches = 0 /\ pc = "fetch" => current_timestamp = prev.current_date
          /\ cur.fetches = 1 => cur.from_date = prev.current_date

\* a fetch after a success that moved the cursor
C9_Witness ==
    /\ prev.outcome = "success"
    /\ prev.from_date /= prev.current_date
    /\ cur.fetches = 1
    /\ cur.from_date = prev.current_date

\* C10: with one of the three configuration values missing or empty the
\* process ends with a non-zero status before the loop: it never fetches,
\* sends or sleeps.
C10_MissingTokenExitsBeforeLoop ==
    ~(Truthy(PRACTICUM_TOKEN) /\ Truthy(TELEGRAM_TOKEN) /\ Truthy(TELEGRAM_CHAT_ID))
    => /\ pc \in {"start", "exited"}
       /\ cur = NewCycle
       /\ prev = NewCycle
       /\ pc = "exited" => ~IsNone(exit_status) /\ Get(exit_status) /= 0

\* the process has exited because the chat identifier alone is empty
C10_Witness ==
    /\ pc = "exited"
    /\ Truthy(PRACTICUM_TOKEN)
    /\ Truthy(TELEGRAM_TOKEN)
    /\ TELEGRAM_CHAT_ID = ""
    /\ exit_status = Some(1)


\* the response of the cycle is not a mapping, or its `homeworks` is present
\* and is not an ordered sequence
ResponseTypeMismatch ==
    /\ ~IsNone(response)
    /\ \/ Get(response).type /= "dict"
       \/ /\ "homeworks" \in DOMAIN Get(response).value
          /\ Get(response).value["homeworks"].type /= "list"

\* C11 as stated: every such response makes check_response raise the
\* type-mismatch error, whether or not `current_date` is present.
C11_TypeMismatchAlways ==
    (ResponseTypeMismatch /\ pc /= "check")
    => ~IsNone(error) /\ Get(error).cls = "TypeError"

\* C11 amended: a response that is not a mapping, or whose `homeworks` is
\* not an ordered sequence while `current_date` is present, makes
\* check_response raise the type-mismatch error; when `homeworks` is not an
\* ordered sequence and `current_date` is absent, the missing-field error
\* for `current_date` is raised instead.
C11_TypeMismatchUnlessDateMissing ==
    (ResponseTypeMismatch /\ pc /= "check")
    => /\ ~IsNone(error)
       /\ IsNone(homeworks)
       /\ Get(error) =
            IF Get(response).type /= "dict"
            THEN [cls |-> "TypeError",
                  msg |-> "Tip otveta API ne yavlyaetsya slovarem"]
            ELSE IF "current_date" \in DOMAIN Get(response).value
            THEN [cls |-> "TypeError",
                  msg |-> "Domashki prishli ne v vide spiska"]
            ELSE [cls |-> "EmptyKeyError",
                  msg |-> "Otsutstvuet pole current_date v otvete API"]

\* `homeworks` is a string beside a current_date: the type-mismatch error
C11_Witness ==
    /\ pc = "except"
    /\ ResponseTypeMismatch
    /\ Get(response).type = "dict"
    /\ "current_date" \in DOMAIN Get(response).value
    /\ Get(error).cls = "TypeError"

\* the message the spec gives for a homework name and a status of the table
ExpectedStatusText(name, st) ==
    "Izmenilsya status proverki raboty \"" \o name \o "\". " \o
    (CASE st = "approved" -> "Rabota proverena: revyueru vsyo ponravilos. Ura!"
       [] st = "reviewing" -> "Rabota vzyata na proverku revyuerom."
       [] st = "rejected" -> "Rabota proverena: u revyuera est zamechaniya.")

\* the record parse_status is given has both of its fields
FirstRecordComplete ==
    /\ ~IsNone(homeworks)
    /\ Len(Get(homeworks)) > 0
    /\ "homework_name" \in DOMAIN Get(homeworks)[1].value
    /\ "status" \in DOMAIN Get(homeworks)[1].value

\* C12: for a record with both fields, parse_status returns exactly the
\* status message with the verdict text of its status when the status is a
\* key of the verdict table, and otherwise raises the unrecognized-value
\* error and produces no message.
C12_ParseStatusResult ==
    (FirstRecordComplete /\ pc /= "parse")
    => LET name == Get(homeworks)[1].value["homework_name"].value
           st == Get(homeworks)[1].value["status"].value
       IN IF st \in {"approved", "reviewing", "rejected"}
          THEN /\ status = Some(ExpectedStatusText(name, st))
               /\ IsNone(error)
          ELSE /\ IsNone(status)
               /\ error = Some([cls |-> "Exception", msg |-> "Neizvestnyi status"])
               /\ Attempted(cur, "status") = {}

\* the message for hw2, rejected, about to be sent
C12_Witness ==
    /\ pc = "send"
    /\ FirstRecordComplete
    /\ Get(homeworks)[1].value["homework_name"].value = "hw2"
    /\ Get(homeworks)[1].value["status"].value = "rejected"
    /\ status = Some("Izmenilsya status proverki raboty \"hw2\". Rabota proverena: u revyuera est zamechaniya.")

\* C13: a generic failure in a cycle that no successful cycle has preceded
\* sends one failure notification with its text.
C13_FirstFailureIsNotified ==
    (CycleDecided /\ cur.outcome = "generic" /\ ~past.succeeded)
    => /\ Cardinality(Attempted(cur, "failure")) = 1
       /\ \A i \in Attempted(cur, "failure") : cur.sends[i].text = cur.text

\* C14: a cycle that ends in a failure leaves the cursor as it was, so the
\* next fetch carries the from_date of the failed cycle; until a cycle has
\* succeeded the cursor is the from_date of its fetch.
C14_FailureKeepsCursor ==
    /\ (cur.fetches = 1 /\ cur.outcome /= "success")
       => current_timestamp = cur.from_date
    /\ prev.outcome \in {"easy", "generic"}
       => /\ pc = "fetch" => current_timestamp = prev.from_date
          /\ cur.fetches = 1 => cur.from_date = prev.from_date

\* a failed cycle whose response carried another current_date, and the next
\* fetch made with the old from_date
C14_Witness ==
    /\ prev.outcome = "generic"
    /\ ~IsNone(prev.current_date)
    /\ prev.current_date /= prev.from_date
    /\ cur.fetches = 1
    /\ cur.from_date = prev.from_date


\* the remembered failure message at every state, in terms of the history:
\* it is empty only when the cycle has succeeded or the latest earlier cycle
\* that was not an easy-error cycle was a successful one (it became empty
\* there), it is a non-empty text only when a failure
\* notification with that text has been delivered, and after a generic
\* failure it stays that failure's text through the easy-error cycles
RememberedMessageFollowsHistory ==
    /\ error_message = Some("")
       => \/ cur.outcome = "success"
          \/ clean
    /\ (~IsNone(error_message) /\ error_message /= Some(""))
       => \/ \E i \in Delivered(cur, "failure") :
               cur.sends[i].text = Get(error_message)
          \/ /\ last_notified = Get(error_message)
             /\ Delivered(cur, "failure") = {}
    /\ (cur.outcome \in {"running", "easy"} /\ ~IsNone(past.last_generic))
       => error_message = Some(Get(past.last_generic).text)
    /\ cur.outcome = "easy" => cur.sends = <<>>

\* a generic failure that follows, over easy-error cycles only, a generic
\* failure with the same text
RepeatedAfterEasy ==
    /\ CycleDecided
    /\ cur.outcome = "generic"
    /\ prev.outcome = "easy"
    /\ ~IsNone(past.last_generic)
    /\ Get(past.last_generic).text = cur.text

\* C15 as stated: the remembered message follows the history as above, and
\* two generic failures with the same text separated only by easy-error
\* cycles produce exactly one notification between them.
C15_ExactlyOneAcrossEasy ==
    /\ RememberedMessageFollowsHistory
    /\ RepeatedAfterEasy
       => Get(past.last_generic).sends
          + Cardinality(Attempted(cur, "failure")) = 1

\* C15 amended: the remembered message follows the history as above, and of
\* two generic failures with the same text separated only by easy-error
\* cycles the second sends nothing, so they produce at most one notification.
C15_SecondSilentAcrossEasy ==
    /\ RememberedMessageFollowsHistory
    /\ RepeatedAfterEasy
       => /\ cur.sends = <<>>
          /\ Get(past.last_generic).sends <= 1

\* a notified failure, an easy-error cycle, the same failure not notified
C15_Witness ==
    /\ pc = "sleep"
    /\ RepeatedAfterEasy
    /\ Get(past.last_generic).sends = 1
    /\ error_message = Some(cur.text)
    /\ cur.sends = <<>>

\* the cycle's response is valid and its homework list is empty
EmptyHomeworks == ~IsNone(homeworks) /\ Get(homeworks) = <<>>

\* C16: with an empty homework list the cycle sends nothing, advances the
\* cursor to the response's current_date and clears the remembered message.
C16_EmptyListCycle ==
    EmptyHomeworks
    => /\ pc \in {"advance", "sleep"}
       /\ cur.sends = <<>>
       /\ IsNone(error)
       /\ pc = "sleep"
          => /\ cur.outcome = "success"
             /\ current_timestamp
                  = Some(Get(response).value["current_date"].value)
             /\ error_message = Some("")

\* after a notified failure, an empty list moves the cursor and clears the
\* remembered message
C16_Witness ==
    /\ pc = "sleep"
    /\ EmptyHomeworks
    /\ prev.outcome = "generic"
    /\ Delivered(prev, "failure") /= {}
    /\ cur.from_date /= cur.current_date
    /\ current_timestamp = cur.current_date
    /\ error_message = Some("")

\* the cycle's response is valid and its homework list has several records
ManyHomeworks == ~IsNone(homeworks) /\ Len(Get(homeworks)) > 1

\* C17: with several records the cycle's message and outcome are those of
\* the record at index 0 alone: one status message built from it when
\* parse_status accepts it, its error and no status message otherwise.
C17_OnlyFirstRecordCounts ==
    (ManyHomeworks /\ CycleDecided)
    => LET first == parse_status(Get(homeworks)[1])
       IN IF first.raised
          THEN /\ error = Some(first.exc)
               /\ Attempted(cur, "status") = {}
               /\ cur.outcome /= "success"
          ELSE /\ IsNone(error)
               /\ cur.outcome = "success"
               /\ Len(cur.sends) = 1
               /\ cur.sends[1].kind = "status"
               /\ cur.sends[1].text = first.value

\* a good first record followed by a record without fields: a success
C17_Witness ==
    /\ pc = "sleep"
    /\ ManyHomeworks
    /\ Get(homeworks)[2] = PyDict(<<>>)
    /\ cur.outcome = "success"
    /\ Cardinality(Delivered(cur, "status")) = 1

\* C18: a cycle attempts at most one chat send.
C18_AtMostOneSendPerCycle ==
    /\ Len(cur.sends) <= 1
    /\ Len(prev.sends) <= 1

\* after a first success, a cycle whose only send is a failed status send
C18_Witness ==
    /\ pc = "sleep"
    /\ past.succeeded
    /\ Len(cur.sends) = 1
    /\ cur.sends[1].kind = "status"
    /\ ~cur.sends[1].delivered

\* C19: every successful cycle whose homework list is not empty attempts a
\* status send with the message of the cycle.
C19_StatusAlwaysSent ==
    (cur.outcome = "success" /\ Get(response).value["homeworks"].value /= <<>>)
    => /\ Cardinality(Attempted(cur, "status")) = 1
       /\ \A i \in Attempted(cur, "status") : cur.sends[i].text = Get(status)

\* two successful cycles in a row send the same status message
C19_Witness ==
    /\ pc = "sleep"
    /\ cur.outcome = "success"
    /\ prev.outcome = "success"
    /\ Cardinality(Delivered(prev, "status")) = 1
    /\ Cardinality(Delivered(cur, "status")) = 1
    /\ prev.sends[1].text = cur.sends[1].text


====
